---- MODULE Spec2Model ----
(***************************************************************************)
(* ActivityNetDataset / ActivityNetVideo (work/dataset/activitynet.py):    *)
(* the windowing of a video's frames into instances, the three subset      *)
(* lists of the dataset and the memoised class weights.                    *)
(*                                                                         *)
(* Numbers.  overlap is a float in the code; here it is the rational       *)
(* overlap / OverlapDen.  Times are rationals too: the comparison          *)
(* i / float(num_frames) * duration > start is done as                     *)
(* i * duration > start * num_frames.  A class weight 1. - float(c)/total  *)
(* is the reduced fraction <<total - c, total>> / gcd.                     *)
(* Python's None is the integer None (-1) where an index is expected and   *)
(* the string NoLabel where a label name is expected.                      *)
(***************************************************************************)
EXTENDS Integers, Sequences, FiniteSets, TLC

VARIABLES
    labels,               \* self.labels: sequence of <<declared index, name>>
    videos,               \* self.videos: sequence of ActivityNetVideo
    instances_training,   \* self.instances_training
    instances_validation, \* self.instances_validation
    instances_testing,    \* self.instances_testing
    class_weights,        \* self.class_weights: None or a dict
    length,               \* self.length (None until generate_instances runs)
    division,             \* what `/` does on two ints in the interpreter
    last_generate,        \* history: arguments and outcome of the latest generate_instances
    call                  \* history: the latest call, its arguments and what it returned

vars == <<labels, videos, instances_training, instances_validation,
          instances_testing, class_weights, length, division, last_generate, call>>

----------------------------------------------------------------------------
(* Bounds of the model *)

MaxLen == 3
OverlapDen == 4
MaxFrames == 5
Duration == 4

None == -1
NoLabel == "<None>"

Lengths == 0..MaxLen
Overlaps == 0..OverlapDen
FrameCounts == 0..MaxFrames
Subsets == {"training", "validation", "testing"}
Divisions == {"floor", "true"}

----------------------------------------------------------------------------
(* Helpers standing for Python built-ins *)

Min(a, b) == IF a < b THEN a ELSE b

RECURSIVE gcd(_, _)
gcd(a, b) == IF b = 0 THEN a ELSE gcd(b, a % b)

\* seq.count(x)
count(seq, x) == Cardinality({i \in DOMAIN seq : seq[i] = x})

\* x in seq
contains(seq, x) == \E i \in DOMAIN seq : seq[i] = x

\* seq.index(x), 0-based, for x in seq: the first position holding x
index(seq, x) ==
    (CHOOSE i \in DOMAIN seq : seq[i] = x /\ \A j \in 1..(i - 1) : seq[j] # x) - 1

\* seq[a:b] for 0 <= a <= b: the slice stops at the end of seq
slice(seq, a, b) == SubSeq(seq, a + 1, Min(b, Len(seq)))

\* range(0, stop, step) for step >= 1
range(stop, step) ==
    [k \in 1..(IF stop <= 0 THEN 0 ELSE (stop + step - 1) \div step) |-> (k - 1) * step]

\* c >= a / 2 on ints c and a >= 0.  The source leaves the interpreter open:
\* int / int is floor division in Python 2 (the dialect the float() casts of
\* the other divisions are written for) and true division in Python 3.
at_least_half(c, a, div) ==
    IF div = "floor" THEN c >= a \div 2 ELSE 2 * c >= a

----------------------------------------------------------------------------
(* ActivityNetDataset: the label table *)

get_labels(lbls) == [i \in DOMAIN lbls |-> lbls[i][2]]

get_labels_indx(lbls) == [i \in DOMAIN lbls |-> lbls[i][1]]

\* mutant of get_output_index: the index the label file declares
get_output_index_declared(lbls, label) ==
    IF contains(get_labels(lbls), label)
    THEN [raised |-> FALSE,
          value |-> lbls[index(get_labels(lbls), label) + 1][1]]
    ELSE [raised |-> TRUE, value |-> None]

\* get_output_index: raised is the ValueError of list.index
get_output_index(lbls, label) ==
    IF contains(get_labels(lbls), label)
    THEN [raised |-> FALSE, value |-> index(get_labels(lbls), label)]
    ELSE [raised |-> TRUE, value |-> None]

----------------------------------------------------------------------------
(* ActivityNetVideo *)

ActivityNetVideo(video_id, params) ==
    [video_id    |-> video_id,
     subset      |-> params.subset,
     duration    |-> params.duration,
     annotations |-> params.annotations,
     num_frames  |-> params.num_frames,
     label       |-> IF params.annotations # <<>>
                     THEN params.annotations[1].label
                     ELSE NoLabel]

ActivityNetInstance(instance_id, start_frame, output) ==
    [instance_id |-> instance_id, start_frame |-> start_frame, output |-> output]

\* assert overlap >= 0 and overlap < 1
overlap_in_range(overlap) == overlap >= 0 /\ overlap < OverlapDen

\* mutant of overlap_frames: rounds up
overlap_frames_ceil(len, overlap) ==
    (overlap * len + OverlapDen - 1) \div OverlapDen

\* overlap_fr = int(overlap*length)
overlap_frames(len, overlap) == (overlap * len) \div OverlapDen

\* mutant of start_frames: candidates up to the last frame
start_frames_to_end(video, len, overlap) ==
    range(video.num_frames, len - (overlap * len) \div OverlapDen)

\* mutant of start_frames: candidates up to last_first_frame included
start_frames_inclusive(video, len, overlap) ==
    range(video.num_frames - len + 1, len - (overlap * len) \div OverlapDen)

\* start_frames = range(0, last_first_frame, length-overlap_fr)
start_frames(video, len, overlap) ==
    range(video.num_frames - len, len - overlap_frames(len, overlap))

\* t > annotation['segment'][0] and t < annotation['segment'][1]
\* for t = i / float(num_frames) * duration
frame_inside(video, i, annotation) ==
    /\ i * video.duration > annotation.segment[1] * video.num_frames
    /\ i * video.duration < annotation.segment[2] * video.num_frames

\* the list outputs, frame i of the code at position i + 1
frame_outputs(video) ==
    [k \in 1..video.num_frames |->
        IF \E a \in DOMAIN video.annotations :
               frame_inside(video, k - 1, video.annotations[a])
        THEN video.label
        ELSE "none"]

\* mutant of instance_output: the vote is taken whether or not the video
\* has a label
instance_output_unguarded(lbls, video, start_frame, len, div) ==
    LET outs == slice(frame_outputs(video), start_frame, start_frame + len)
    IN  IF at_least_half(count(outs, video.label), len, div)
        THEN get_output_index(lbls, video.label)
        ELSE get_output_index(lbls, "none")

\* the body of the loop over start_frames, up to the output
instance_output(lbls, video, start_frame, len, div) ==
    IF video.label # NoLabel
    THEN LET outs == slice(frame_outputs(video), start_frame, start_frame + len)
         IN  IF at_least_half(count(outs, video.label), len, div)
             THEN get_output_index(lbls, video.label)
             ELSE get_output_index(lbls, "none")
    ELSE [raised |-> FALSE, value |-> None]

get_video_instances(lbls, video, len, overlap, div) ==
    IF ~overlap_in_range(overlap)
    THEN [status |-> "AssertionError", instances |-> <<>>]
    ELSE IF overlap_frames(len, overlap) = len
    THEN [status |-> "Exception", instances |-> <<>>]
    ELSE LET starts == start_frames(video, len, overlap)
             out(k) == instance_output(lbls, video, starts[k], len, div)
         IN  IF \E k \in DOMAIN starts : out(k).raised
             THEN [status |-> "ValueError", instances |-> <<>>]
             ELSE [status |-> "ok",
                   instances |-> [k \in DOMAIN starts |->
                       ActivityNetInstance(video.video_id, starts[k], out(k).value)]]

----------------------------------------------------------------------------
(* ActivityNetDataset: instance generation and class weights *)

RECURSIVE select(_, _)
select(vids, subset) ==
    IF vids = <<>> THEN <<>>
    ELSE IF Head(vids).subset = subset
         THEN <<Head(vids)>> \o select(Tail(vids), subset)
         ELSE select(Tail(vids), subset)

get_subset_videos(vids, subset) == select(vids, subset)

\* one of the three loops of generate_instances: the list built so far
\* when the loop ends or when a video raises
RECURSIVE extend(_, _, _, _, _, _)
extend(acc, lbls, vids, len, overlap, div) ==
    IF vids = <<>> THEN [status |-> "ok", instances |-> acc]
    ELSE LET r == get_video_instances(lbls, Head(vids), len, overlap, div)
         IN  IF r.status # "ok"
             THEN [status |-> r.status, instances |-> acc]
             ELSE extend(acc \o r.instances, lbls, Tail(vids), len, overlap, div)

\* mutant of generate_instances: the lists are not emptied first
generate_instances_appending(old, lbls, vids, len, overlap, div) ==
    LET tr == extend(old[1], lbls, select(vids, "training"), len, overlap, div)
        va == extend(old[2], lbls, select(vids, "validation"), len, overlap, div)
        te == extend(old[3], lbls, select(vids, "testing"), len, overlap, div)
    IN  IF tr.status # "ok"
        THEN [status |-> tr.status, training |-> tr.instances,
              validation |-> old[2], testing |-> old[3]]
        ELSE IF va.status # "ok"
        THEN [status |-> va.status, training |-> tr.instances,
              validation |-> va.instances, testing |-> old[3]]
        ELSE [status |-> te.status, training |-> tr.instances,
              validation |-> va.instances, testing |-> te.instances]

\* the three lists after the call and how the call ended; old is the
\* three lists before the call
generate_instances(old, lbls, vids, len, overlap, div) ==
    LET tr == extend(<<>>, lbls, get_subset_videos(vids, "training"), len, overlap, div)
        va == extend(<<>>, lbls, get_subset_videos(vids, "validation"), len, overlap, div)
        te == extend(<<>>, lbls, get_subset_videos(vids, "testing"), len, overlap, div)
    IN  IF tr.status # "ok"
        THEN [status |-> tr.status, training |-> tr.instances,
              validation |-> <<>>, testing |-> <<>>]
        ELSE IF va.status # "ok"
        THEN [status |-> va.status, training |-> tr.instances,
              validation |-> va.instances, testing |-> <<>>]
        ELSE [status |-> te.status, training |-> tr.instances,
              validation |-> va.instances, testing |-> te.instances]

\* self.class_weights
NoWeights == [is_none |-> TRUE, dict |-> <<>>]
Weights(d) == [is_none |-> FALSE, dict |-> d]

\* if self.class_weights:
truthy(cw) == ~cw.is_none /\ DOMAIN cw.dict # {}

\* mutant of weight: the frequency itself
weight_frequency(n, total) ==
    LET g == gcd(n, total) IN <<n \div g, total \div g>>

\* weight = 1. - float(len(instances))/total_instances
weight(n, total) ==
    LET g == gcd(total - n, total) IN <<(total - n) \div g, total \div g>>

computed_weights(lbls, training) ==
    LET indx == get_labels_indx(lbls)
    IN  [idx \in {indx[i] : i \in DOMAIN indx} |->
            weight(Cardinality({k \in DOMAIN training : training[k].output = idx}),
                   Len(training))]

\* mutant of compute_class_weights: the dict is created before the check of
\* the training list
compute_class_weights_early_reset(cw, lbls, training) ==
    IF truthy(cw)
    THEN [status |-> "cached", class_weights |-> cw, returned |-> cw]
    ELSE IF training = <<>>
    THEN [status |-> "Exception", class_weights |-> Weights(<<>>),
          returned |-> NoWeights]
    ELSE LET new == Weights(computed_weights(lbls, training))
         IN  [status |-> "computed", class_weights |-> new, returned |-> new]

compute_class_weights(cw, lbls, training) ==
    IF truthy(cw)
    THEN [status |-> "cached", class_weights |-> cw, returned |-> cw]
    ELSE IF training = <<>>
    THEN [status |-> "Exception", class_weights |-> cw, returned |-> NoWeights]
    ELSE LET new == Weights(computed_weights(lbls, training))
         IN  [status |-> "computed", class_weights |-> new, returned |-> new]

----------------------------------------------------------------------------
(* Inputs: label files, annotation lists, videos and manifests *)

LabelTables ==
    { <<>>,
      << <<0, "none">>, <<1, "a">>, <<2, "b">> >>,
      << <<2, "a">>, <<0, "none">>, <<1, "b">> >>,
      << <<0, "a">>, <<1, "b">> >>,
      << <<3, "none">>, <<3, "a">>, <<7, "a">> >> }

Annotation(label, start, end) == [label |-> label, segment |-> <<start, end>>]

AnnotationLists ==
    { <<>>,
      << Annotation("a", 1, 3) >>,
      << Annotation("a", 0, Duration) >>,
      << Annotation("b", 0, 1), Annotation("a", 2, Duration) >>,
      << Annotation("none", 1, 2) >> }

Video(video_id, subset, num_frames, annotations) ==
    ActivityNetVideo(video_id,
        [subset |-> subset, duration |-> Duration,
         annotations |-> annotations, num_frames |-> num_frames])

VideoPool ==
    { Video(1, "training", n, a) : n \in FrameCounts, a \in AnnotationLists }

Manifests ==
    { <<>>,
      << Video(1, "training", MaxFrames, << Annotation("a", 1, 2) >>),
         Video(2, "testing", MaxFrames - 1, <<>>),
         Video(3, "training", MaxFrames - 2, <<>>) >>,
      << Video(1, "validation", MaxFrames - 1, << Annotation("a", 0, Duration) >>),
         Video(2, "training", MaxFrames,
               << Annotation("b", 0, 1), Annotation("a", 2, Duration) >>),
         Video(3, "training", MaxFrames - 1, << Annotation("a", 1, 3) >>) >>,
      << Video(1, "training", MaxFrames - 2, <<>>),
         Video(2, "validation", MaxFrames - 3, <<>>) >>,
      << Video(1, "testing", MaxFrames, << Annotation("a", 1, 3) >>),
         Video(2, "training", 1, << Annotation("a", 0, Duration) >>),
         Video(3, "validation", MaxFrames - 2, << Annotation("b", 1, 3) >>) >> }

----------------------------------------------------------------------------
(* State machine *)

Call(op, video, len, overlap, status, instances, weights) ==
    [op |-> op, video |-> video, length |-> len, overlap |-> overlap,
     status |-> status, instances |-> instances, weights |-> weights]

NoCall == Call("__init__", 0, None, 0, "ok", <<>>, NoWeights)

\* ActivityNetDataset.__init__ on a label file, a manifest and an interpreter
Constructed(lbls, vids, div) ==
    /\ labels = lbls
    /\ videos = vids
    /\ division = div
    /\ instances_training = <<>>
    /\ instances_validation = <<>>
    /\ instances_testing = <<>>
    /\ class_weights = NoWeights
    /\ length = None
    /\ last_generate = [length |-> None, overlap |-> 0, status |-> "never"]
    /\ call = NoCall

Init ==
    \E lbls \in LabelTables, vids \in Manifests, div \in Divisions :
        Constructed(lbls, vids, div)

InitVideo ==
    \E lbls \in LabelTables, v \in VideoPool, div \in Divisions :
        Constructed(lbls, <<v>>, div)

GenerateInstances(len, overlap) ==
    LET r == generate_instances(
                 <<instances_training, instances_validation, instances_testing>>,
                 labels, videos, len, overlap, division)
    IN  /\ length' = len
        /\ instances_training' = r.training
        /\ instances_validation' = r.validation
        /\ instances_testing' = r.testing
        /\ last_generate' = [length |-> len, overlap |-> overlap, status |-> r.status]
        /\ call' = Call("generate_instances", 0, len, overlap, r.status, <<>>, NoWeights)
        /\ UNCHANGED <<labels, videos, class_weights, division>>

ComputeClassWeights ==
    LET r == compute_class_weights(class_weights, labels, instances_training)
    IN  /\ class_weights' = r.class_weights
        /\ call' = Call("compute_class_weights", 0, None, 0, r.status, <<>>, r.returned)
        /\ UNCHANGED <<labels, videos, instances_training, instances_validation,
                       instances_testing, length, division, last_generate>>

GetVideoInstances(v, len, overlap) ==
    LET r == get_video_instances(labels, videos[v], len, overlap, division)
    IN  /\ call' = Call("get_video_instances", v, len, overlap, r.status,
                        r.instances, NoWeights)
        /\ UNCHANGED <<labels, videos, instances_training, instances_validation,
                       instances_testing, class_weights, length, division,
                       last_generate>>

Next ==
    \/ \E len \in Lengths, overlap \in Overlaps : GenerateInstances(len, overlap)
    \/ ComputeClassWeights

NextVideo ==
    \E v \in DOMAIN videos, len \in Lengths, overlap \in Overlaps :
        GetVideoInstances(v, len, overlap)

Spec == Init /\ [][Next]_vars

VideoSpec == InitVideo /\ [][NextVideo]_vars

----------------------------------------------------------------------------
(* Vocabulary of the properties *)

LastVideo == videos[call.video]

VideoCall == call.op = "get_video_instances"

\* overlap lies in [0,1)
ValidOverlap(overlap) == 0 <= overlap /\ overlap < OverlapDen

\* floor(overlap * len), characterised by f <= overlap * len < f + 1
Floor(len, overlap) ==
    CHOOSE f \in 0..len :
        f * OverlapDen <= overlap * len /\ overlap * len < (f + 1) * OverlapDen

Stride(len, overlap) == len - Floor(len, overlap)

\* position, counted from 0, of the first entry of the label table named
\* name; None when the table has no such entry
FirstPosition(name) ==
    IF \A i \in DOMAIN labels : labels[i][2] # name THEN None
    ELSE CHOOSE p \in 0..(Len(labels) - 1) :
             /\ labels[p + 1][2] = name
             /\ \A q \in 0..(p - 1) : labels[q + 1][2] # name

\* frame i of video v lies strictly inside one of its annotation segments
Inside(v, i) ==
    \E a \in DOMAIN v.annotations :
        /\ i * v.duration > v.annotations[a].segment[1] * v.num_frames
        /\ i * v.duration < v.annotations[a].segment[2] * v.num_frames

InsideCount(v, s, len) == Cardinality({i \in s..(s + len - 1) : Inside(v, i)})

\* concatenation, over the first n videos that are in subset, of what
\* get_video_instances returns for them
RECURSIVE SubsetInstances(_, _, _, _)
SubsetInstances(subset, len, overlap, n) ==
    IF n = 0 THEN <<>>
    ELSE SubsetInstances(subset, len, overlap, n - 1) \o
         (IF videos[n].subset = subset
          THEN get_video_instances(labels, videos[n], len, overlap, division).instances
          ELSE <<>>)

ListsFollow(len, overlap) ==
    /\ instances_training = SubsetInstances("training", len, overlap, Len(videos))
    /\ instances_validation = SubsetInstances("validation", len, overlap, Len(videos))
    /\ instances_testing = SubsetInstances("testing", len, overlap, Len(videos))

----------------------------------------------------------------------------
(* Properties of the dataset (checked under Spec) *)

C3_Weights ==
    (call.op = "compute_class_weights" /\ call.status = "computed") =>
        LET total == Len(instances_training)
            c(idx) == Cardinality({k \in DOMAIN instances_training :
                                      instances_training[k].output = idx})
            d == call.weights.dict
        IN  /\ total > 0
            /\ call.weights = class_weights
            /\ DOMAIN d = {labels[i][1] : i \in DOMAIN labels}
            /\ \A idx \in DOMAIN d :
                  /\ d[idx][2] > 0
                  /\ d[idx][1] * total = d[idx][2] * (total - c(idx))
                  /\ (c(idx) = 0 => d[idx] = <<1, 1>>)
                  /\ (4 * c(idx) = total => d[idx] = <<3, 4>>)

\* C3 witness: weights were just computed, one label index is held by a
\* quarter of the training instances and another by none of them.
C3_Witness ==
    /\ call.op = "compute_class_weights"
    /\ call.status = "computed"
    /\ \E i, j \in DOMAIN call.weights.dict :
          /\ call.weights.dict[i] = <<3, 4>>
          /\ call.weights.dict[j] = <<1, 1>>
          /\ 4 * Cardinality({k \in DOMAIN instances_training :
                                 instances_training[k].output = i})
                = Len(instances_training)

\* C4, as stated: once compute_class_weights has succeeded (class_weights is
\* no longer None), every later call returns the cached mapping and leaves it
\* as it is, whatever happened in between.
C4_NeverInvalidated ==
    [][(~class_weights.is_none /\ call'.op = "compute_class_weights") =>
          /\ call'.status = "cached"
          /\ call'.weights = class_weights
          /\ class_weights' = class_weights]_vars

\* C5: a call of compute_class_weights with class_weights None and an empty
\* instances_training raises and changes neither class_weights nor the three
\* lists; with class_weights None and a non-empty instances_training it
\* computes the weights.
C5_FailsWithoutTraining ==
    [][(call'.op = "compute_class_weights" /\ class_weights.is_none) =>
          IF instances_training = <<>>
          THEN /\ call'.status = "Exception"
               /\ class_weights' = class_weights
               /\ class_weights'.is_none
               /\ instances_training' = instances_training
               /\ instances_validation' = instances_validation
               /\ instances_testing' = instances_testing
          ELSE /\ call'.status = "computed"
               /\ ~class_weights'.is_none
               /\ call'.weights = class_weights']_vars

\* C5 witness: compute_class_weights has just raised after a generation that
\* returned normally and produced no training instance.
C5_Witness ==
    /\ call.op = "compute_class_weights"
    /\ call.status = "Exception"
    /\ class_weights.is_none
    /\ last_generate.status = "ok"
    /\ instances_training = <<>>
    /\ instances_testing # <<>>

----------------------------------------------------------------------------
(* Properties of get_video_instances (checked under VideoSpec) *)

\* C2: for length >= 1 and overlap in [0,1), every returned instance has
\* 0 <= start_frame <= num_frames - length, and consecutive instances have
\* start frames that differ by exactly length - floor(overlap * length).
C2_StartFrames ==
    (VideoCall /\ call.length >= 1 /\ ValidOverlap(call.overlap)) =>
        LET ins == call.instances
        IN  /\ \A k \in DOMAIN ins :
                  /\ 0 <= ins[k].start_frame
                  /\ ins[k].start_frame <= LastVideo.num_frames - call.length
            /\ \A k \in 1..(Len(ins) - 1) :
                  ins[k + 1].start_frame - ins[k].start_frame
                      = Stride(call.length, call.overlap)

\* C2 witness: a call with a real overlap returned three or more windows,
\* the last of them ending at the last frame but one.
C2_Witness ==
    /\ VideoCall
    /\ call.length >= 2
    /\ call.overlap > 0
    /\ Stride(call.length, call.overlap) < call.length
    /\ Len(call.instances) >= 3
    /\ call.instances[Len(call.instances)].start_frame
           = LastVideo.num_frames - call.length - 1

\* C6: a video constructed with annotations = [] has label None, each of its
\* instances has output None, and no call on it fails in a label look-up,
\* whatever the label table holds.
C6_UnlabelledVideo ==
    (VideoCall /\ LastVideo.annotations = <<>>) =>
        /\ LastVideo.label = NoLabel
        /\ call.status # "ValueError"
        /\ \A k \in DOMAIN call.instances : call.instances[k].output = None
        /\ (call.length >= 1 /\ ValidOverlap(call.overlap)) => call.status = "ok"

\* C6 witness: an unannotated video gave several instances although the
\* label table is empty.
C6_Witness ==
    /\ VideoCall
    /\ LastVideo.annotations = <<>>
    /\ labels = <<>>
    /\ Len(call.instances) >= 2

C8_MajorityVote ==
    (VideoCall /\ LastVideo.label # NoLabel) =>
        \A k \in DOMAIN call.instances :
            LET s == call.instances[k].start_frame
            IN  call.instances[k].output =
                    IF 2 * InsideCount(LastVideo, s, call.length) >= call.length
                    THEN FirstPosition(LastVideo.label)
                    ELSE FirstPosition("none")

\* C9: for length >= 1 and overlap in [0,1), a call that returns gives one
\* instance per multiple k * stride (k = 0, 1, ...) below num_frames - length,
\* in increasing order; each window fits, and num_frames <= length gives no
\* instance.
C9_Candidates ==
    (VideoCall /\ call.status = "ok" /\ call.length >= 1
        /\ ValidOverlap(call.overlap)) =>
        LET ins == call.instances
            n == LastVideo.num_frames
            stride == Stride(call.length, call.overlap)
        IN  /\ Len(ins) = Cardinality({m \in 0..n :
                              m % stride = 0 /\ m < n - call.length})
            /\ \A k \in DOMAIN ins :
                  /\ ins[k].start_frame = (k - 1) * stride
                  /\ ins[k].start_frame + call.length <= n
                  /\ ins[k].instance_id = LastVideo.video_id
            /\ (n <= call.length => ins = <<>>)

\* C9 witness: num_frames - length is a multiple of the stride, and the call
\* returned the multiples below it.
C9_Witness ==
    /\ VideoCall
    /\ call.status = "ok"
    /\ call.length >= 1
    /\ Len(call.instances) >= 1
    /\ (LastVideo.num_frames - call.length) % Stride(call.length, call.overlap) = 0
    /\ Stride(call.length, call.overlap) >= 2

\* C10: with overlap in [0,1) the call raises the degenerate-overlap
\* Exception, returning nothing, exactly when floor(overlap * length) equals
\* length; with length >= 1 it never does, the stride is between 1 and
\* length, and the returned start frames strictly increase.
C10_DegenerateOverlap ==
    (VideoCall /\ ValidOverlap(call.overlap)) =>
        /\ call.status = "Exception" <=> Floor(call.length, call.overlap) = call.length
        /\ call.status = "Exception" => call.instances = <<>>
        /\ call.length >= 1 =>
              /\ call.status # "Exception"
              /\ 1 <= Stride(call.length, call.overlap)
              /\ Stride(call.length, call.overlap) <= call.length
              /\ \A k \in 1..(Len(call.instances) - 1) :
                    call.instances[k].start_frame < call.instances[k + 1].start_frame

\* C10 witness: the degenerate-overlap Exception was raised on an overlap in
\* [0,1).
C10_Witness ==
    /\ VideoCall
    /\ ValidOverlap(call.overlap)
    /\ call.status = "Exception"
    /\ LastVideo.num_frames > 0

====
